---- MODULE Spec2Model ----
(***************************************************************************)
(* Rate-limited request admission and resilient execution of the Trello    *)
(* client (src/src/trello-client.ts).                                      *)
(*                                                                         *)
(* Time is counted in ticks of one second.  One caller is one in-flight    *)
(* tool invocation; it calls one endpoint method of TrelloClient, which    *)
(* issues its HTTP request through the client's axios instance.  Every     *)
(* request of that instance passes the request interceptor, which awaits   *)
(* rateLimiter.waitForAvailableToken().  The limiter itself                *)
(* (rate-limiter.ts) is modelled from its specification: two sliding       *)
(* RateWindows behind one acquire() and a FIFO WaitQueue.                  *)
(***************************************************************************)
EXTENDS Integers, Sequences, FiniteSets, TLC

\* ------------------------------------------------------------- bounds
\* The clock runs for the longer window's duration and MaxSlack ticks more.
MaxSlack == 1
\* An execute call stops re-invoking its operation after MaxCalls invocations.
MaxCalls == 3

\* ---------------------------------------------------------- constants
\* setTimeout(resolve, 1000): the fixed retry delay, in ticks.
RetryDelay == 1
\* The hard maximum attempt count of the ResilientExecutor's contract.
maxAttempts == 3

\* The concurrent callers.
Callers == {"a", "b"}
\* Bodies an upstream response can carry.
Bodies == {"x", "y"}
NoCaller == "none"
NoBody == "-"
NoStatus == 0

\* Endpoint methods: one representative per shape of method body.
\*   getBoardById      return this.handleRequest(async () => axiosInstance.get(..))
\*   getCardChecklists await this.axiosInstance.get(..) with no handleRequest
Methods == {"getBoardById", "getCardChecklists", "attachFileToCard",
            "attachImageDataToCard"}
NoMethod == "-"

\* The message of the McpError(InvalidRequest, ...) that the method's requestFn
\* throws, before its axios call, when its argument fails validation.
NoMessage == "-"
ValidationMessage(m) ==
  IF m = "attachFileToCard" THEN "File not found"
  ELSE IF m = "attachImageDataToCard" THEN "Invalid data URL format"
  ELSE NoMessage

Validates(m) == ValidationMessage(m) # NoMessage

\* fs.access(localPath) is evaluated on every invocation, so a retry can fail
\* validation after the first invocation passed; a data URL does not change.
RevalidatesOnRetry(m) == m = "attachFileToCard"

\* TRUE iff the method runs its upstream call inside handleRequest.
UsesHandleRequest(m) == m \notin {"getCardChecklists", "getChecklistByName"}

\* ------------------------------------------------ upstream responses
\* What one upstream call can end with: an HTTP response (status, body), or
\* a transport fault (an axios error that carries no response).
HttpStatuses == {200, 429, 404, 500}
Responses ==
  [kind : {"response"}, status : HttpStatuses, data : Bodies]
    \cup {[kind |-> "network", status |-> NoStatus, data |-> NoBody]}

\* axios resolves a 2xx response and rejects everything else with an AxiosError.
Resolves(resp) == resp.kind = "response" /\ resp.status \in 200..299

\* axios.isAxiosError(error): the rejection of an upstream call.
IsAxiosError(resp) == resp.kind \in {"response", "network"} /\ ~Resolves(resp)

NoResult ==
  [kind |-> "none", code |-> "-", msg |-> "-", status |-> NoStatus, data |-> NoBody]
NoResponse == [kind |-> "none", status |-> NoStatus, data |-> NoBody]

\* requestFn threw an error of its own before making its axios call.
Thrown == [kind |-> "thrown", status |-> NoStatus, data |-> NoBody]

Success(v) ==
  [kind |-> "Success", code |-> "-", msg |-> "-", status |-> NoStatus, data |-> v]

\* new McpError(ErrorCode.InvalidRequest, msg), thrown inside requestFn
InvalidRequestError(msg) ==
  [kind |-> "McpError", code |-> "InvalidRequest", msg |-> msg,
   status |-> NoStatus, data |-> NoBody]

\* new McpError(ErrorCode.InternalError, `Trello API Error: ${status} ${message}`, data)
TrelloApiError(resp) ==
  [kind |-> "McpError", code |-> "InternalError", msg |-> "Trello API Error",
   status |-> resp.status, data |-> resp.data]

\* new McpError(ErrorCode.InternalError, 'An unexpected error occurred')
UnexpectedError ==
  [kind |-> "McpError", code |-> "InternalError",
   msg |-> "An unexpected error occurred", status |-> NoStatus, data |-> NoBody]

\* The AxiosError itself, as a method without handleRequest lets it escape.
RawAxiosError(resp) ==
  [kind |-> "AxiosError", code |-> "-", msg |-> "-", status |-> resp.status,
   data |-> resp.data]

\* The upstream answered 429 Too Many Requests.
Is429(resp) == resp.kind = "response" /\ resp.status = 429

\* error.response?.status === 429
IsThrottled(resp) == resp.kind = "response" /\ resp.status = 429

\* handleRequest without its 429 branch: every axios error is thrown at once.
HandleRequestNoRetry(resp) ==
  IF Resolves(resp) THEN [do |-> "return", result |-> Success(resp.data)]
  ELSE IF IsAxiosError(resp) THEN [do |-> "throw", result |-> TrelloApiError(resp)]
  ELSE [do |-> "throw", result |-> UnexpectedError]

\* handleRequest retrying on every 4xx status instead of on 429 alone.
HandleRequestRetry4xx(resp) ==
  IF Resolves(resp) THEN [do |-> "return", result |-> Success(resp.data)]
  ELSE IF IsAxiosError(resp) THEN
    IF resp.kind = "response" /\ resp.status \in 400..499
    THEN [do |-> "retry", result |-> NoResult]
    ELSE [do |-> "throw", result |-> TrelloApiError(resp)]
  ELSE [do |-> "throw", result |-> UnexpectedError]

\* handleRequest retrying on every 5xx status as well as on 429.
HandleRequestRetry5xx(resp) ==
  IF Resolves(resp) THEN [do |-> "return", result |-> Success(resp.data)]
  ELSE IF IsAxiosError(resp) THEN
    IF resp.kind = "response" /\ (resp.status = 429 \/ resp.status \in 500..599)
    THEN [do |-> "retry", result |-> NoResult]
    ELSE [do |-> "throw", result |-> TrelloApiError(resp)]
  ELSE [do |-> "throw", result |-> UnexpectedError]

\* handleRequest's try/catch around one `await requestFn()`:
\*   "return" the value, "retry" after the delay, or "throw" an McpError.
HandleRequestOutcome(resp) ==
  IF Resolves(resp) THEN [do |-> "return", result |-> Success(resp.data)]
  ELSE IF IsAxiosError(resp) THEN
    IF IsThrottled(resp) THEN [do |-> "retry", result |-> NoResult]
    ELSE [do |-> "throw", result |-> TrelloApiError(resp)]
  ELSE [do |-> "throw", result |-> UnexpectedError]

\* A method that awaits axiosInstance directly: the response's data or the raw error.
DirectOutcome(resp) ==
  IF Resolves(resp) THEN [do |-> "return", result |-> Success(resp.data)]
  ELSE [do |-> "throw", result |-> RawAxiosError(resp)]

MethodOutcome(m, resp) ==
  IF UsesHandleRequest(m) THEN HandleRequestOutcome(resp) ELSE DirectOutcome(resp)

\* A retry timer with no delay.
BackoffNone(t) == t

\* The instant the retry timer set at t fires.
BackoffDeadline(t) == t + RetryDelay

\* ------------------------------------------------------- RateWindow
\* A window that is one tick shorter than configured.
RECURSIVE LiveShort(_, _, _)
LiveShort(log, duration, t) ==
  IF log = <<>> THEN <<>>
  ELSE IF Head(log) > t - duration + 1 THEN log
  ELSE LiveShort(Tail(log), duration, t)

\* The entries of a usage log that fall within (t - duration, t].
RECURSIVE Live(_, _, _)
Live(log, duration, t) ==
  IF log = <<>> THEN <<>>
  ELSE IF Head(log) > t - duration THEN log
  ELSE Live(Tail(log), duration, t)

Prune(w, t) == [w EXCEPT !.usageLog = Live(w.usageLog, w.duration, t)]

\* A capacity test that lets one entry too many in.
HasSpareOffByOne(w, t) == Len(Live(w.usageLog, w.duration, t)) <= w.capacity

HasSpare(w, t) == Len(Live(w.usageLog, w.duration, t)) < w.capacity

\* tryConsume(now): admitted with `now` recorded, or refused with the earliest
\* instant at which a slot frees; expired entries are pruned on every call.
TryConsume(w, t) ==
  LET p == Prune(w, t) IN
  IF Len(p.usageLog) < p.capacity
  THEN [admitted |-> TRUE, window |-> [p EXCEPT !.usageLog = Append(@, t)],
        earliest |-> t]
  ELSE [admitted |-> FALSE, window |-> p,
        earliest |-> Head(p.usageLog) + p.duration]

\* ------------------------------------------------ DualWindowLimiter
\* The two windows consumed one after the other: the first records its usage
\* even when the second then refuses.
AdmitSequential(a, u, t) ==
  LET ra == TryConsume(a, t) IN
  IF ~ra.admitted
  THEN [admitted |-> FALSE, app |-> ra.window, user |-> Prune(u, t),
        tookApp |-> FALSE, tookUser |-> FALSE]
  ELSE LET ru == TryConsume(u, t) IN
       [admitted |-> ru.admitted, app |-> ra.window, user |-> ru.window,
        tookApp |-> TRUE, tookUser |-> ru.admitted]

\* One admission attempt against both windows at instant t: usage is recorded in
\* both windows or in neither.
AdmitBoth(a, u, t) ==
  IF HasSpare(a, t) /\ HasSpare(u, t)
  THEN [admitted |-> TRUE, app |-> TryConsume(a, t).window,
        user |-> TryConsume(u, t).window, tookApp |-> TRUE, tookUser |-> TRUE]
  ELSE [admitted |-> FALSE, app |-> Prune(a, t), user |-> Prune(u, t),
        tookApp |-> FALSE, tookUser |-> FALSE]

\* A caller that must wait behind others: nothing is consumed, the logs are pruned.
Refused(a, u, t) ==
  [admitted |-> FALSE, app |-> Prune(a, t), user |-> Prune(u, t),
   tookApp |-> FALSE, tookUser |-> FALSE]

\* acquire() admits on arrival only when nobody is waiting; otherwise the caller
\* joins the back of the WaitQueue.
MayAdmitOnArrival(q) == q = <<>>

\* A queue served from its back.
LastWaiter(q) == q[Len(q)]

\* notifyCapacityMayBeAvailable() examines the head of the queue only.
NextWaiter(q) == Head(q)

\* ------------------------------------------------------------- state
VARIABLES
  now,          \* the clock
  app,          \* RateWindow of the application credential
  user,         \* RateWindow of the user credential
  queue,        \* WaitQueue: the suspended acquirers, oldest first
  pc,           \* per caller: where its call stands
  method,       \* per caller: the endpoint method it called
  invocations,  \* per caller: invocations of the operation in this call
  throttled,    \* per caller: 429 responses the upstream gave in this call
  lastResp,     \* per caller: the response of the latest invocation
  result,       \* per caller: what the call gave back to the caller
  wakeAt,       \* per caller: deadline of the retry timer
  throttledAt,  \* per caller: instant of the latest 429
  acquired,     \* per caller: an acquire() completed and is not yet used by a send
  charged,      \* per caller: windows in which the pending acquire recorded usage
  sendAdmitted, \* per caller: the latest request left after an acquire completed
  admissions,   \* instants of the admissions within the longer window's duration
  cancelled,    \* per caller: where it was suspended when its cancellation came
  attemptAdmits, \* per caller: admissions granted to its current invocation
  attemptSends, \* per caller: upstream requests sent by its current invocation
  activeConfig, \* this.activeConfig
  configFile,   \* the parsed content of CONFIG_FILE on disk, or Absent
  arg,          \* per caller: the id passed to setActiveBoard / setActiveWorkspace
  boot,         \* epoch flips at every start of the process; dropped is the
                \* number of usage records the last start threw away
  pending,      \* per caller: the configToSave object its saveConfig() built
  toolResult,   \* per caller: what its tool handler returned last
  phase,        \* how far the start of the server process has come
  env,          \* process.env: TRELLO_API_KEY, TRELLO_TOKEN, TRELLO_BOARD_ID
  loadOutcome   \* how the loadConfig() of run() settled

vars == <<now, app, user, queue, pc, method, invocations, throttled, lastResp,
          result, wakeAt, throttledAt, acquired, charged, sendAdmitted,
          admissions, cancelled, attemptAdmits, attemptSends,
          activeConfig, configFile, arg, boot,
          pending, toolResult, phase, env, loadOutcome>>

configVars == <<activeConfig, configFile, arg, boot>>

serverVars == <<pending, toolResult, phase, env, loadOutcome>>

attemptVars == <<attemptAdmits, attemptSends>>

limiterVars == <<app, user, queue, charged, acquired, admissions>>

\* The quota definitions the limiter can be configured with: {capacity, duration}.
WindowConfigs == {<<1, 3>>, <<2, 2>>}

\* The longer of the two windows' durations.
LongestDuration == IF app.duration >= user.duration THEN app.duration ELSE user.duration

\* The admissions that are not older than the longer window's duration.
Recent(log, t) == SelectSeq(log, LAMBDA e : e > t - LongestDuration)

\* The last instant of the clock.
Horizon == LongestDuration + MaxSlack

\* ------------------------------------------------ active configuration
Undefined == "undefined"
NoId == "-"
Ids == {"", "i1"}

\* JavaScript truthiness of an optional string: neither undefined nor ''.
Truthy(v) == v \notin {Undefined, ""}

\* process.env.TRELLO_BOARD_ID: not set, or a board id.
EnvBoardIds == {Undefined, "b0"}

\* new TrelloClient({apiKey, token, defaultBoardId, boardId: defaultBoardId}):
\* activeConfig is a copy of that object.
Constructed(envBoardId) ==
  [apiKey |-> "key", token |-> "tok", defaultBoardId |-> envBoardId,
   boardId |-> envBoardId, workspaceId |-> Undefined]

\* A saveConfig that writes the whole active configuration.
ConfigToSaveAll(cfg) == cfg

\* saveConfig's configToSave object.
ConfigToSave(cfg) == [boardId |-> cfg.boardId, workspaceId |-> cfg.workspaceId]

\* JSON.stringify leaves out the properties whose value is undefined;
\* JSON.parse gives back an object with the properties that are left.
Stringify(obj) ==
  [k \in {f \in DOMAIN obj : obj[f] # Undefined} |-> obj[k]]

Absent == [absent |-> TRUE]

\* savedConfig.<k>, undefined when the property is missing.
Saved(file, k) == IF k \in DOMAIN file THEN file[k] ELSE Undefined

\* A file that cannot be read (readFile fails with a code such as EACCES),
\* and a file whose content JSON.parse does not accept.
Unreadable == [unreadable |-> TRUE]
NotJson == [notJson |-> TRUE]

\* TRUE iff the file gives loadConfig an object to take properties from.
Parses(file) == file \notin {Absent, Unreadable, NotJson}

\* A loadConfig that takes over boardId and workspaceId as saved, even when
\* the saved value is missing or empty.
LoadConfigOverwrite(cfg, file) ==
  IF ~Parses(file) THEN cfg
  ELSE [cfg EXCEPT !.boardId = Saved(file, "boardId"),
                   !.workspaceId = Saved(file, "workspaceId")]

\* A loadConfig that takes over every property the file holds.
LoadConfigAll(cfg, file) ==
  IF ~Parses(file) THEN cfg
  ELSE [k \in DOMAIN cfg |-> IF Truthy(Saved(file, k)) THEN file[k] ELSE cfg[k]]

\* loadConfig: when the file cannot be read or parsed the try block is left
\* before any assignment; otherwise boardId and workspaceId are taken over
\* when truthy, everything else is kept.
LoadConfig(cfg, file) ==
  IF ~Parses(file) THEN cfg
  ELSE [cfg EXCEPT
          !.boardId = IF Truthy(Saved(file, "boardId"))
                      THEN Saved(file, "boardId") ELSE @,
          !.workspaceId = IF Truthy(Saved(file, "workspaceId"))
                          THEN Saved(file, "workspaceId") ELSE @]

\* throw new Error('Failed to save configuration')
SaveFailed ==
  [kind |-> "Error", code |-> "-", msg |-> "Failed to save configuration",
   status |-> NoStatus, data |-> NoBody]

\* setActiveBoard and setActiveWorkspace: check that the object exists
\* (getBoardById / getWorkspaceById, through handleRequest), set, save.
ConfigMethods == {"setActiveBoard", "setActiveWorkspace"}

ConfigField(m) == IF m = "setActiveBoard" THEN "boardId" ELSE "workspaceId"

\* No configToSave object built; no tool result returned yet.
NoPending == [none |-> TRUE]
NoToolResult == [returned |-> FALSE, isError |-> FALSE, text |-> "-"]

Window(c, d) == [capacity |-> c, duration |-> d, usageLog |-> <<>>]

NoCharge == [app |-> FALSE, user |-> FALSE]

InitCallers ==
  /\ now = 0
  /\ queue = <<>>
  /\ pc = [c \in Callers |-> "idle"]
  /\ method = [c \in Callers |-> NoMethod]
  /\ invocations = [c \in Callers |-> 0]
  /\ throttled = [c \in Callers |-> 0]
  /\ lastResp = [c \in Callers |-> NoResponse]
  /\ result = [c \in Callers |-> NoResult]
  /\ wakeAt = [c \in Callers |-> 0]
  /\ throttledAt = [c \in Callers |-> 0]
  /\ acquired = [c \in Callers |-> FALSE]
  /\ charged = [c \in Callers |-> NoCharge]
  /\ sendAdmitted = [c \in Callers |-> FALSE]
  /\ admissions = <<>>
  /\ cancelled = [c \in Callers |-> "no"]
  /\ attemptAdmits = [c \in Callers |-> 0]
  /\ attemptSends = [c \in Callers |-> 0]
  /\ arg = [c \in Callers |-> NoId]
  /\ boot = [epoch |-> 0, dropped |-> 0]
  /\ pending = [c \in Callers |-> NoPending]
  /\ toolResult = [c \in Callers |-> NoToolResult]

\* A server that has started with both credentials set, no TRELLO_BOARD_ID
\* and no configuration file, and is connected to its transport.
InitServer ==
  /\ env = [apiKey |-> "key", token |-> "tok", boardId |-> Undefined]
  /\ activeConfig = Constructed(Undefined)
  /\ configFile = Absent
  /\ phase = "connected"
  /\ loadOutcome = "resolved"

\* createTrelloRateLimiters(): two windows, nothing used yet.
Init ==
  /\ InitCallers
  /\ InitServer
  /\ \E ka \in WindowConfigs, ku \in WindowConfigs :
       /\ app = Window(ka[1], ka[2])
       /\ user = Window(ku[1], ku[2])

\* ----------------------------------------------------------- actions
\* waitForAvailableToken() for caller c at instant `now`: admitted at once, or
\* suspended at the back of the queue.  Gives the limiter's next state and the
\* caller's next position.
Acquire(c) ==
  LET r == IF MayAdmitOnArrival(queue) THEN AdmitBoth(app, user, now)
           ELSE Refused(app, user, now) IN
  /\ app' = r.app
  /\ user' = r.user
  /\ charged' = [charged EXCEPT ![c] = [app |-> r.tookApp, user |-> r.tookUser]]
  /\ IF r.admitted
     THEN /\ queue' = queue
          /\ pc' = [pc EXCEPT ![c] = "admitted"]
          /\ acquired' = [acquired EXCEPT ![c] = TRUE]
          /\ admissions' = Append(Recent(admissions, now), now)
          /\ attemptAdmits' = [attemptAdmits EXCEPT ![c] = 1]
     ELSE /\ queue' = Append(queue, c)
          /\ pc' = [pc EXCEPT ![c] = "suspended"]
          /\ attemptAdmits' = [attemptAdmits EXCEPT ![c] = 0]
          /\ UNCHANGED <<acquired, admissions>>

\* An endpoint method is called: handleRequest (when the method uses it) invokes
\* requestFn, whose axios call enters the request interceptor.
Call(c, m) ==
  /\ pc[c] = "idle"
  /\ method' = [method EXCEPT ![c] = m]
  /\ invocations' = [invocations EXCEPT ![c] = 1]
  /\ attemptSends' = [attemptSends EXCEPT ![c] = 0]
  /\ Acquire(c)
  /\ UNCHANGED <<now, throttled, lastResp, result, wakeAt, throttledAt, sendAdmitted>>
  /\ UNCHANGED cancelled
  /\ UNCHANGED configVars
  /\ UNCHANGED serverVars

\* A slot freed: the head of the queue is re-evaluated against both windows.
WakeHead ==
  /\ queue # <<>>
  /\ LET c == NextWaiter(queue)
         r == AdmitBoth(app, user, now) IN
     /\ r.admitted
     /\ app' = r.app
     /\ user' = r.user
     /\ queue' = SelectSeq(queue, LAMBDA x : x # c)
     /\ pc' = [pc EXCEPT ![c] = "admitted"]
     /\ acquired' = [acquired EXCEPT ![c] = TRUE]
     /\ charged' = [charged EXCEPT ![c] = [app |-> r.tookApp, user |-> r.tookUser]]
     /\ admissions' = Append(Recent(admissions, now), now)
     /\ attemptAdmits' = [attemptAdmits EXCEPT ![c] = @ + 1]
  /\ UNCHANGED <<now, method, invocations, throttled, lastResp, result, wakeAt,
                 throttledAt, sendAdmitted, cancelled, attemptSends>>
  /\ UNCHANGED configVars
  /\ UNCHANGED serverVars

\* An interceptor that does not await waitForAvailableToken().
InterceptorNoAwait(c) == TRUE

\* An interceptor that holds every request back while some other call sits in
\* its retry delay or in waitForAvailableToken(): a blocking wait.
InterceptorSerialized(c) ==
  /\ pc[c] = "admitted"
  /\ \A d \in Callers \ {c} : pc[d] \notin {"suspended", "waiting"}

\* The interceptor hands the request on once `await waitForAvailableToken()` is over.
InterceptorReleases(c) == pc[c] = "admitted"

\* The request leaves the axios instance.
Send(c) ==
  /\ pc[c] \in {"suspended", "admitted"}
  /\ InterceptorReleases(c)
  /\ pc' = [pc EXCEPT ![c] = "inflight"]
  /\ sendAdmitted' = [sendAdmitted EXCEPT ![c] = acquired[c]]
  /\ acquired' = [acquired EXCEPT ![c] = FALSE]
  /\ charged' = [charged EXCEPT ![c] = NoCharge]
  /\ throttledAt' = [throttledAt EXCEPT ![c] = 0]
  /\ attemptSends' = [attemptSends EXCEPT ![c] = @ + 1]
  /\ UNCHANGED <<now, app, user, queue, method, invocations, throttled, lastResp,
                 result, wakeAt, admissions, cancelled, attemptAdmits>>
  /\ UNCHANGED configVars
  /\ UNCHANGED serverVars

\* The upstream call ends with resp; the method (handleRequest's try/catch, or
\* the bare await) returns, throws, or sets the retry timer.
Respond(c, resp) ==
  /\ pc[c] = "inflight"
  /\ LET o == MethodOutcome(method[c], resp) IN
     /\ lastResp' = [lastResp EXCEPT ![c] = resp]
     /\ throttled' = [throttled EXCEPT ![c] = IF Is429(resp) THEN @ + 1 ELSE @]
     /\ throttledAt' = [throttledAt EXCEPT ![c] = IF Is429(resp) THEN now ELSE @]
     /\ IF o.do = "retry"
        THEN /\ pc' = [pc EXCEPT ![c] = "waiting"]
             /\ wakeAt' = [wakeAt EXCEPT ![c] = BackoffDeadline(now)]
             /\ UNCHANGED result
        ELSE /\ pc' = [pc EXCEPT ![c] = "done"]
             /\ result' = [result EXCEPT ![c] = o.result]
             /\ UNCHANGED wakeAt
  /\ UNCHANGED <<now, method, invocations, sendAdmitted, cancelled>>
  /\ UNCHANGED attemptVars
  /\ UNCHANGED limiterVars
  /\ UNCHANGED configVars
  /\ UNCHANGED serverVars

\* The retry timer fires: `return this.handleRequest(requestFn)` invokes the
\* operation again, whose axios call enters the interceptor again.
Retry(c) ==
  /\ pc[c] = "waiting"
  /\ now >= wakeAt[c]
  /\ invocations[c] < MaxCalls
  /\ invocations' = [invocations EXCEPT ![c] = @ + 1]
  /\ wakeAt' = [wakeAt EXCEPT ![c] = 0]
  /\ attemptSends' = [attemptSends EXCEPT ![c] = 0]
  /\ Acquire(c)
  /\ UNCHANGED <<now, method, throttled, lastResp, result, throttledAt, sendAdmitted>>
  /\ UNCHANGED cancelled
  /\ UNCHANGED configVars
  /\ UNCHANGED serverVars

\* requestFn throws before its axios call: handleRequest's catch block gets an
\* error that is not an axios error.  No request enters the interceptor.
Throws(c, m) ==
  LET o == MethodOutcome(m, Thrown) IN
  /\ lastResp' = [lastResp EXCEPT ![c] = Thrown]
  /\ attemptAdmits' = [attemptAdmits EXCEPT ![c] = 0]
  /\ attemptSends' = [attemptSends EXCEPT ![c] = 0]
  /\ IF o.do = "retry"
     THEN /\ pc' = [pc EXCEPT ![c] = "waiting"]
          /\ wakeAt' = [wakeAt EXCEPT ![c] = BackoffDeadline(now)]
          /\ UNCHANGED result
     ELSE /\ pc' = [pc EXCEPT ![c] = "done"]
          /\ result' = [result EXCEPT ![c] = o.result]
          /\ wakeAt' = [wakeAt EXCEPT ![c] = 0]
  /\ UNCHANGED <<now, throttled, throttledAt, sendAdmitted, cancelled>>
  /\ UNCHANGED limiterVars
  /\ UNCHANGED configVars
  /\ UNCHANGED serverVars

\* A validating method is called with an argument that fails its validation.
CallThrows(c, m) ==
  /\ pc[c] = "idle"
  /\ Validates(m)
  /\ method' = [method EXCEPT ![c] = m]
  /\ invocations' = [invocations EXCEPT ![c] = 1]
  /\ Throws(c, m)

\* The retry timer fires and the invocation it starts fails validation.
RetryThrows(c) ==
  /\ pc[c] = "waiting"
  /\ now >= wakeAt[c]
  /\ invocations[c] < MaxCalls
  /\ RevalidatesOnRetry(method[c])
  /\ invocations' = [invocations EXCEPT ![c] = @ + 1]
  /\ Throws(c, method[c])
  /\ UNCHANGED method

\* The caller takes the result; its next call starts from scratch.
Finish(c) ==
  /\ pc[c] = "done"
  /\ pc' = [pc EXCEPT ![c] = "idle"]
  /\ method' = [method EXCEPT ![c] = NoMethod]
  /\ invocations' = [invocations EXCEPT ![c] = 0]
  /\ throttled' = [throttled EXCEPT ![c] = 0]
  /\ lastResp' = [lastResp EXCEPT ![c] = NoResponse]
  /\ result' = [result EXCEPT ![c] = NoResult]
  /\ wakeAt' = [wakeAt EXCEPT ![c] = 0]
  /\ throttledAt' = [throttledAt EXCEPT ![c] = 0]
  /\ sendAdmitted' = [sendAdmitted EXCEPT ![c] = FALSE]
  /\ cancelled' = [cancelled EXCEPT ![c] = "no"]
  /\ attemptAdmits' = [attemptAdmits EXCEPT ![c] = 0]
  /\ attemptSends' = [attemptSends EXCEPT ![c] = 0]
  /\ arg' = [arg EXCEPT ![c] = NoId]
  /\ UNCHANGED now
  /\ UNCHANGED limiterVars
  /\ UNCHANGED <<activeConfig, configFile, boot>>
  /\ UNCHANGED serverVars

\* One second passes.
Tick ==
  /\ now < Horizon
  /\ now' = now + 1
  /\ UNCHANGED <<app, user, queue, pc, method, invocations, throttled, lastResp,
                 result, wakeAt, throttledAt, acquired, charged, sendAdmitted,
                 admissions, cancelled, attemptAdmits, attemptSends>>
  /\ UNCHANGED configVars
  /\ UNCHANGED serverVars

\* The caller's request is cancelled while the call is suspended in acquire() or
\* in the retry delay.  waitForAvailableToken() is called without a signal and
\* the retry delay is a bare setTimeout: nothing in the client observes it.
Cancel(c) ==
  /\ pc[c] \in {"suspended", "waiting"}
  /\ cancelled[c] = "no"
  /\ cancelled' = [cancelled EXCEPT ![c] = IF pc[c] = "suspended" THEN "acquire"
                                            ELSE "backoff"]
  /\ UNCHANGED <<now, app, user, queue, pc, method, invocations, throttled, lastResp,
                 result, wakeAt, throttledAt, acquired, charged, sendAdmitted,
                 admissions, attemptAdmits, attemptSends>>
  /\ UNCHANGED configVars
  /\ UNCHANGED serverVars

Next ==
  \/ \E c \in Callers, m \in Methods : Call(c, m)
  \/ WakeHead
  \/ \E c \in Callers : Send(c)
  \/ \E c \in Callers, resp \in Responses : Respond(c, resp)
  \/ \E c \in Callers : Retry(c)
  \/ \E c \in Callers, m \in Methods : CallThrows(c, m)
  \/ \E c \in Callers : RetryThrows(c)
  \/ \E c \in Callers : Finish(c)
  \/ Tick

Spec == Init /\ [][Next]_vars

\* The client with callers whose requests can be cancelled.
NextCancel ==
  \/ \E c \in Callers, m \in Methods : Call(c, m)
  \/ WakeHead
  \/ \E c \in Callers : Send(c)
  \/ \E c \in Callers, resp \in Responses : Respond(c, resp)
  \/ \E c \in Callers : Retry(c)
  \/ \E c \in Callers, m \in Methods : CallThrows(c, m)
  \/ \E c \in Callers : RetryThrows(c)
  \/ \E c \in Callers : Finish(c)
  \/ \E c \in Callers : Cancel(c)
  \/ Tick

SpecCancel == Init /\ [][NextCancel]_vars

\* ------------------------------------------- setting the active board
\* setActiveBoard(id) / setActiveWorkspace(id) is called: its existence check
\* (getBoardById / getWorkspaceById) is invoked through handleRequest.
CallSetActive(c, m, id) ==
  /\ pc[c] = "idle"
  /\ method' = [method EXCEPT ![c] = m]
  /\ arg' = [arg EXCEPT ![c] = id]
  /\ invocations' = [invocations EXCEPT ![c] = 1]
  /\ attemptSends' = [attemptSends EXCEPT ![c] = 0]
  /\ Acquire(c)
  /\ UNCHANGED <<now, throttled, lastResp, result, wakeAt, throttledAt, sendAdmitted,
                 cancelled, activeConfig, configFile, boot>>
  /\ UNCHANGED serverVars

\* The existence check's upstream call ends with resp.  When it fails the
\* method rejects; when it is throttled handleRequest sets the retry timer;
\* when it succeeds the method assigns the id to activeConfig and then awaits
\* saveConfig(), whose write succeeds (saved) or fails.
RespondSetActive(c, resp, saved) ==
  /\ pc[c] = "inflight"
  /\ method[c] \in ConfigMethods
  /\ LET o == MethodOutcome(method[c], resp)
         set == [activeConfig EXCEPT ![ConfigField(method[c])] = arg[c]] IN
     /\ lastResp' = [lastResp EXCEPT ![c] = resp]
     /\ throttled' = [throttled EXCEPT ![c] = IF Is429(resp) THEN @ + 1 ELSE @]
     /\ throttledAt' = [throttledAt EXCEPT ![c] = IF Is429(resp) THEN now ELSE @]
     /\ IF o.do = "retry"
        THEN /\ pc' = [pc EXCEPT ![c] = "waiting"]
             /\ wakeAt' = [wakeAt EXCEPT ![c] = BackoffDeadline(now)]
             /\ UNCHANGED <<result, activeConfig, configFile, arg>>
        ELSE /\ pc' = [pc EXCEPT ![c] = "done"]
             /\ arg' = [arg EXCEPT ![c] = NoId]
             /\ UNCHANGED wakeAt
             /\ IF o.do = "throw"
                THEN /\ result' = [result EXCEPT ![c] = o.result]
                     /\ UNCHANGED <<activeConfig, configFile>>
                ELSE /\ activeConfig' = set
                     /\ IF saved
                        THEN /\ configFile' = Stringify(ConfigToSave(set))
                             /\ result' = [result EXCEPT ![c] = o.result]
                        ELSE /\ UNCHANGED configFile
                             /\ result' = [result EXCEPT ![c] = SaveFailed]
  /\ UNCHANGED <<now, method, invocations, sendAdmitted, cancelled, boot>>
  /\ UNCHANGED attemptVars
  /\ UNCHANGED limiterVars
  /\ UNCHANGED serverVars

\* The process is started again: a new TrelloClient with new rate limiters,
\* then loadConfig().  Calls of the old process are gone; the file stays.
Restart(envBoardId) ==
  /\ boot' = [epoch |-> 1 - boot.epoch,
              dropped |-> Len(app.usageLog) + Len(user.usageLog)]
  /\ activeConfig' = LoadConfig(Constructed(envBoardId), configFile)
  /\ app' = Window(app.capacity, app.duration)
  /\ user' = Window(user.capacity, user.duration)
  /\ queue' = <<>>
  /\ pc' = [c \in Callers |-> "idle"]
  /\ method' = [c \in Callers |-> NoMethod]
  /\ arg' = [c \in Callers |-> NoId]
  /\ invocations' = [c \in Callers |-> 0]
  /\ throttled' = [c \in Callers |-> 0]
  /\ lastResp' = [c \in Callers |-> NoResponse]
  /\ result' = [c \in Callers |-> NoResult]
  /\ wakeAt' = [c \in Callers |-> 0]
  /\ throttledAt' = [c \in Callers |-> 0]
  /\ acquired' = [c \in Callers |-> FALSE]
  /\ charged' = [c \in Callers |-> NoCharge]
  /\ sendAdmitted' = [c \in Callers |-> FALSE]
  /\ cancelled' = [c \in Callers |-> "no"]
  /\ attemptAdmits' = [c \in Callers |-> 0]
  /\ attemptSends' = [c \in Callers |-> 0]
  /\ admissions' = <<>>
  /\ UNCHANGED <<now, configFile>>
  /\ UNCHANGED serverVars

\* loadConfig() is called on the running client.
Reload ==
  /\ activeConfig' = LoadConfig(activeConfig, configFile)
  /\ UNCHANGED <<now, pc, method, invocations, throttled, lastResp, result, wakeAt,
                 throttledAt, sendAdmitted, cancelled, configFile, arg, boot>>
  /\ UNCHANGED attemptVars
  /\ UNCHANGED limiterVars
  /\ UNCHANGED serverVars

\* The one caller of the set-active tools.
ConfigCallers == {"a"}

NextConfig ==
  \/ \E c \in ConfigCallers, m \in ConfigMethods, id \in Ids : CallSetActive(c, m, id)
  \/ WakeHead
  \/ \E c \in ConfigCallers : Send(c)
  \/ \E c \in ConfigCallers, resp \in Responses, saved \in BOOLEAN :
       RespondSetActive(c, resp, saved)
  \/ \E c \in ConfigCallers : Retry(c)
  \/ \E c \in ConfigCallers : Finish(c)
  \/ \E envBoardId \in EnvBoardIds : Restart(envBoardId)
  \/ Reload
  \/ Tick

\* Both windows of the limiter configured alike.
InitConfig ==
  /\ InitCallers
  /\ InitServer
  /\ \E k \in WindowConfigs :
       /\ app = Window(k[1], k[2])
       /\ user = Window(k[1], k[2])

\* The set-active tools are checked with the one-slot window configuration.
InitConfigOneSlot == InitConfig /\ app.capacity = 1

SpecConfig == InitConfigOneSlot /\ [][NextConfig]_vars

\* ------------------------------------------------------ tool handlers
\* Three of the registered tools and the client method each one awaits.
Tools == {"get_lists", "get_checklist_by_name", "get_active_board_info"}

ToolMethod(tool) ==
  IF tool = "get_lists" THEN "getLists"
  ELSE IF tool = "get_checklist_by_name" THEN "getChecklistByName"
  ELSE "getBoardById"

\* The methods that work on a board and take an optional boardId
\* (getChecklistByName: called without a cardId).
BoardMethods == {"getLists", "getChecklistByName"}

\* The optional boardId argument of a tool call.
BoardArgs == {Undefined, "i1"}

\* boardId || this.activeConfig.boardId || this.defaultBoardId; the checklist
\* lookups leave the default board out.
EffectiveBoardId(m, boardArg, cfg) ==
  IF Truthy(boardArg) THEN boardArg
  ELSE IF Truthy(cfg.boardId) THEN cfg.boardId
  ELSE IF m = "getLists" THEN cfg.defaultBoardId
  ELSE Undefined

\* A method that goes on without a board id.
MissingBoardIgnored(m, boardArg, cfg) == FALSE

\* if (!effectiveBoardId)
MissingBoard(m, boardArg, cfg) == ~Truthy(EffectiveBoardId(m, boardArg, cfg))

\* new McpError(ErrorCode.InvalidParams, ...), thrown before handleRequest
\* and before any axios call.
InvalidParamsError(m) ==
  [kind |-> "McpError", code |-> "InvalidParams",
   msg |-> IF m = "getLists"
           THEN "boardId is required when no default board is configured"
           ELSE "No board ID or card ID provided and no active board set",
   status |-> NoStatus, data |-> NoBody]

\* The body of the board's checklists holds a checklist of the wanted name.
HasChecklist(body) == body = "x"

\* A handler whose catch block throws the error on.
HandlerResultRethrow(m, res) ==
  IF res.kind = "Success"
  THEN [returned |-> TRUE, isError |-> FALSE, text |-> res.data]
  ELSE [returned |-> FALSE, isError |-> FALSE, text |-> res.msg]

\* What the handler awaiting client method m returns for the outcome res of
\* that call: the result as text, or handleError(error); the
\* get_checklist_by_name handler reports a null result as an error.
HandlerResult(m, res) ==
  IF res.kind = "Success"
  THEN IF m = "getChecklistByName" /\ ~HasChecklist(res.data)
       THEN [returned |-> TRUE, isError |-> TRUE, text |-> "Checklist not found"]
       ELSE [returned |-> TRUE, isError |-> FALSE, text |-> res.data]
  ELSE [returned |-> TRUE, isError |-> TRUE, text |-> "Error: " \o res.msg]

\* get_active_board_info without an active board: returned by the handler
\* itself, before any client call.
NoActiveBoard ==
  [returned |-> TRUE, isError |-> TRUE, text |-> "No active board set"]

\* A tool is called with an optional boardId.  The handler of
\* get_active_board_info returns at once when no board is active; a board
\* method throws InvalidParams when it has no board id; every other call
\* goes on to its upstream request.
CallTool(c, tool, boardArg) ==
  LET m == ToolMethod(tool) IN
  /\ pc[c] = "idle"
  /\ IF tool = "get_active_board_info" /\ ~Truthy(activeConfig.boardId)
     THEN /\ toolResult' = [toolResult EXCEPT ![c] = NoActiveBoard]
          /\ UNCHANGED <<pc, method, arg, invocations, result>>
          /\ UNCHANGED attemptVars
          /\ UNCHANGED limiterVars
     ELSE /\ method' = [method EXCEPT ![c] = m]
          /\ arg' = [arg EXCEPT ![c] = boardArg]
          /\ UNCHANGED toolResult
          /\ IF m \in BoardMethods /\ MissingBoard(m, boardArg, activeConfig)
             THEN /\ pc' = [pc EXCEPT ![c] = "done"]
                  /\ result' = [result EXCEPT ![c] = InvalidParamsError(m)]
                  /\ invocations' = [invocations EXCEPT ![c] = 0]
                  /\ UNCHANGED attemptVars
                  /\ UNCHANGED limiterVars
             ELSE /\ invocations' = [invocations EXCEPT ![c] = 1]
                  /\ attemptSends' = [attemptSends EXCEPT ![c] = 0]
                  /\ Acquire(c)
                  /\ UNCHANGED result
  /\ UNCHANGED <<now, throttled, lastResp, wakeAt, throttledAt, sendAdmitted,
                 cancelled, activeConfig, configFile, boot>>
  /\ UNCHANGED <<pending, phase, env, loadOutcome>>

\* The handler's try block ends: it returns the result, or its catch block
\* returns handleError(error).
HandlerReturns(c) ==
  /\ pc[c] = "done"
  /\ toolResult' = [toolResult EXCEPT ![c] = HandlerResult(method[c], result[c])]
  /\ pc' = [pc EXCEPT ![c] = "idle"]
  /\ method' = [method EXCEPT ![c] = NoMethod]
  /\ invocations' = [invocations EXCEPT ![c] = 0]
  /\ throttled' = [throttled EXCEPT ![c] = 0]
  /\ lastResp' = [lastResp EXCEPT ![c] = NoResponse]
  /\ result' = [result EXCEPT ![c] = NoResult]
  /\ wakeAt' = [wakeAt EXCEPT ![c] = 0]
  /\ throttledAt' = [throttledAt EXCEPT ![c] = 0]
  /\ sendAdmitted' = [sendAdmitted EXCEPT ![c] = FALSE]
  /\ cancelled' = [cancelled EXCEPT ![c] = "no"]
  /\ attemptAdmits' = [attemptAdmits EXCEPT ![c] = 0]
  /\ attemptSends' = [attemptSends EXCEPT ![c] = 0]
  /\ arg' = [arg EXCEPT ![c] = NoId]
  /\ UNCHANGED now
  /\ UNCHANGED limiterVars
  /\ UNCHANGED <<activeConfig, configFile, boot>>
  /\ UNCHANGED <<pending, phase, env, loadOutcome>>

NextTools ==
  \/ \E c \in ConfigCallers, tool \in Tools, boardArg \in BoardArgs :
       CallTool(c, tool, boardArg)
  \/ WakeHead
  \/ \E c \in ConfigCallers : Send(c)
  \/ \E c \in ConfigCallers, resp \in Responses : Respond(c, resp)
  \/ \E c \in ConfigCallers : Retry(c)
  \/ \E c \in ConfigCallers : HandlerReturns(c)
  \/ \E envBoardId \in EnvBoardIds : Restart(envBoardId)
  \/ Tick

SpecTools == InitConfigOneSlot /\ [][NextTools]_vars

\* --------------------------------- concurrent calls of the set-active tools
\* The steps of setActiveBoard / setActiveWorkspace one by one, as two calls
\* in flight at once go through them, with an upstream that does not
\* throttle and a configuration file that can be written.
SaveIds == {"i1"}
SaveResponses == {r \in Responses : ~Is429(r)}

\* The existence check's upstream call ends with resp.  On success the id is
\* assigned to activeConfig and saveConfig() runs up to `await fs.mkdir`.
CheckResponds(c, resp) ==
  /\ pc[c] = "inflight"
  /\ method[c] \in ConfigMethods
  /\ LET o == MethodOutcome(method[c], resp) IN
     /\ lastResp' = [lastResp EXCEPT ![c] = resp]
     /\ IF o.do = "return"
        THEN /\ activeConfig' = [activeConfig EXCEPT ![ConfigField(method[c])] = arg[c]]
             /\ pc' = [pc EXCEPT ![c] = "saving"]
             /\ result' = [result EXCEPT ![c] = o.result]
        ELSE /\ pc' = [pc EXCEPT ![c] = "done"]
             /\ result' = [result EXCEPT ![c] = o.result]
             /\ UNCHANGED activeConfig
  /\ UNCHANGED <<now, method, invocations, throttled, wakeAt, throttledAt,
                 sendAdmitted, cancelled, configFile, arg, boot>>
  /\ UNCHANGED attemptVars
  /\ UNCHANGED limiterVars
  /\ UNCHANGED serverVars

\* fs.mkdir has resolved: saveConfig builds configToSave from the active
\* configuration as it is now, and starts fs.writeFile.
BuildConfigToSave(c) ==
  /\ pc[c] = "saving"
  /\ pending' = [pending EXCEPT ![c] = ConfigToSave(activeConfig)]
  /\ pc' = [pc EXCEPT ![c] = "writing"]
  /\ UNCHANGED <<now, method, invocations, throttled, lastResp, result, wakeAt,
                 throttledAt, sendAdmitted, cancelled>>
  /\ UNCHANGED attemptVars
  /\ UNCHANGED limiterVars
  /\ UNCHANGED configVars
  /\ UNCHANGED <<toolResult, phase, env, loadOutcome>>

\* The fs.writeFile of caller c lands: the file holds what c's saveConfig
\* built, whatever another call has written or assigned in the meantime.
WriteLands(c) ==
  /\ pc[c] = "writing"
  /\ configFile' = Stringify(pending[c])
  /\ pending' = [pending EXCEPT ![c] = NoPending]
  /\ pc' = [pc EXCEPT ![c] = "done"]
  /\ UNCHANGED <<now, method, invocations, throttled, lastResp, result, wakeAt,
                 throttledAt, sendAdmitted, cancelled>>
  /\ UNCHANGED attemptVars
  /\ UNCHANGED limiterVars
  /\ UNCHANGED <<activeConfig, arg, boot>>
  /\ UNCHANGED <<toolResult, phase, env, loadOutcome>>

NextSave ==
  \/ \E c \in Callers, m \in ConfigMethods, id \in SaveIds : CallSetActive(c, m, id)
  \/ WakeHead
  \/ \E c \in Callers : Send(c)
  \/ \E c \in Callers, resp \in SaveResponses : CheckResponds(c, resp)
  \/ \E c \in Callers : BuildConfigToSave(c)
  \/ \E c \in Callers : WriteLands(c)
  \/ \E c \in Callers : Finish(c)
  \/ Tick

SpecSave == InitConfig /\ [][NextSave]_vars

\* ------------------------------------------------------------ claims
\* A call made through handleRequest that has not ended yet.
Wrapped(c) == method[c] # NoMethod /\ UsesHandleRequest(method[c])

InProgress(c) == pc[c] \in {"suspended", "admitted", "inflight", "waiting"}

\* C1. Retry exhaustion: a call through handleRequest whose operation was
\* throttled on every invocation is invoked at most maxAttempts times, and
\* once the maxAttempts-th invocation has been throttled the call has ended
\* with an exhausted-retry error.
C1_RetryExhaustion ==
  \A c \in Callers :
    (Wrapped(c) /\ throttled[c] = invocations[c]) =>
      /\ invocations[c] <= maxAttempts
      /\ throttled[c] = maxAttempts =>
           (pc[c] = "done" /\ result[c].kind \notin {"none", "Success"})

\* C2. Retry determinism: a call through handleRequest keeps going after each
\* of its first two throttled invocations, and when the operation was
\* throttled twice and then succeeded the call has ended after exactly three
\* invocations with a Success carrying the third invocation's value; a
\* Success, once returned, is not replaced and nothing is invoked after it.
C2_Outcome ==
  \A c \in Callers :
    Wrapped(c) =>
      /\ (throttled[c] \in 1..2 /\ Is429(lastResp[c])) => InProgress(c)
      /\ (throttled[c] = 2 /\ Resolves(lastResp[c])) =>
           /\ pc[c] = "done"
           /\ invocations[c] = 3
           /\ result[c] = Success(lastResp[c].data)

C2_ReturnedOnce ==
  \A c \in Callers :
    result[c].kind = "Success" =>
      \/ pc'[c] = "idle"
      \/ result'[c] = result[c] /\ invocations'[c] = invocations[c]

C2_RetryDeterminism == [](C2_Outcome) /\ [][C2_ReturnedOnce]_vars

C2_Witness ==
  \E c \in Callers :
    /\ Wrapped(c)
    /\ pc[c] = "done"
    /\ throttled[c] = 2
    /\ invocations[c] = 3
    /\ result[c].kind = "Success"

\* A 4xx response other than 429.
InvalidRequest(resp) ==
  resp.kind = "response" /\ resp.status \in 400..499 /\ resp.status # 429

\* C3. Non-retry of invalid requests: when an invocation made through
\* handleRequest is answered with a 4xx other than 429, the call has ended
\* with an error carrying that status and body and the operation is not invoked
\* again; answered so on its first invocation, it was invoked exactly once.
C3_Surfaced ==
  \A c \in Callers :
    (Wrapped(c) /\ InvalidRequest(lastResp[c])) =>
      /\ pc[c] = "done"
      /\ result[c] = TrelloApiError(lastResp[c])
      /\ result[c].status = lastResp[c].status
      /\ result[c].data = lastResp[c].data
      /\ invocations[c] = throttled[c] + 1

C3_NotInvokedAgain ==
  \A c \in Callers :
    (Wrapped(c) /\ InvalidRequest(lastResp[c])) =>
      (pc'[c] = "idle" \/ invocations'[c] = invocations[c])

C3_NonRetry == [](C3_Surfaced) /\ [][C3_NotInvokedAgain]_vars

C3_Witness ==
  \E c \in Callers :
    /\ Wrapped(c)
    /\ InvalidRequest(lastResp[c])
    /\ invocations[c] = 1
    /\ pc[c] = "done"

\* C4. Every endpoint method runs its upstream call through handleRequest, so
\* no call of any endpoint method ends because the upstream answered 429.
C4_ThrottleNeverRaised ==
  \A c \in Callers :
    method[c] # NoMethod =>
      /\ UsesHandleRequest(method[c])
      /\ Is429(lastResp[c]) => (pc[c] # "done" /\ result[c].status # 429)

\* C5. Admission precedes every outbound call: whenever a request of a
\* caller is in flight, an acquire() made for that request had completed
\* before it left; first attempts and retries alike.
C5_AdmissionPrecedesSend ==
  \A c \in Callers : pc[c] = "inflight" => sendAdmitted[c]

C5_Witness ==
  \E c \in Callers, d \in Callers :
    /\ pc[c] = "inflight" /\ invocations[c] >= 2
    /\ pc[d] = "inflight" /\ invocations[d] = 1

\* A retry of caller c has been invoked and has not been answered yet.
RetryStarted(c) ==
  /\ Wrapped(c)
  /\ throttled[c] >= 1
  /\ invocations[c] = throttled[c] + 1
  /\ pc[c] \in {"suspended", "admitted", "inflight"}

C6_Counter ==
  \A c \in Callers :
    Wrapped(c) =>
      /\ pc[c] = "waiting" => invocations[c] = throttled[c]
      /\ pc[c] \in {"suspended", "admitted", "inflight"} =>
           invocations[c] = throttled[c] + 1

C6_RetryStep ==
  \A c \in Callers :
    (pc[c] = "waiting" /\ pc'[c] # "waiting") =>
      /\ now >= throttledAt[c] + RetryDelay
      /\ invocations'[c] = invocations[c] + 1
      /\ \/ pc'[c] \in {"suspended", "admitted"}
         \/ pc'[c] = "done" /\ lastResp'[c] = Thrown /\ attemptSends'[c] = 0
      /\ pc'[c] = "admitted" => (~acquired[c] /\ acquired'[c])

C6_SendStep ==
  \A c \in Callers :
    (throttled[c] >= 1 /\ pc[c] # "inflight" /\ pc'[c] = "inflight") =>
      /\ now >= throttledAt[c] + RetryDelay
      /\ acquired[c]
      /\ ~acquired'[c]

AdmittedWithin(w, t) ==
  Cardinality({i \in DOMAIN admissions : admissions[i] > t - w.duration})

\* C7. Quota invariant: at every instant, in each of the two windows, the
\* admissions within the trailing window of that window's duration do not
\* exceed its capacity, whatever the interleaving of the callers' acquire().
C7_QuotaInvariant ==
  /\ AdmittedWithin(app, now) <= app.capacity
  /\ AdmittedWithin(user, now) <= user.capacity

\* A window is full while one caller holds an admission and another waits.
C7_Witness ==
  /\ \/ AdmittedWithin(app, now) = app.capacity
     \/ AdmittedWithin(user, now) = user.capacity
  /\ \E c \in Callers, d \in Callers : pc[c] = "admitted" /\ pc[d] = "suspended"

Both == [app |-> TRUE, user |-> TRUE]

\* C8. Dual-window atomic admission: a caller is admitted only at an instant
\* at which both windows have spare capacity, and that instant is recorded in
\* both usage logs together; a suspended caller has recorded usage in neither
\* window, and suspending it leaves the live entries of both logs as they were.
C8_Charges ==
  \A c \in Callers :
    /\ pc[c] = "suspended" => charged[c] = NoCharge
    /\ acquired[c] => charged[c] = Both

C8_Step ==
  \A c \in Callers :
    /\ (~acquired[c] /\ acquired'[c]) =>
         /\ HasSpare(app, now) /\ HasSpare(user, now)
         /\ app'.usageLog = Append(Live(app.usageLog, app.duration, now), now)
         /\ user'.usageLog = Append(Live(user.usageLog, user.duration, now), now)
    /\ (pc[c] # "suspended" /\ pc'[c] = "suspended") =>
         /\ app'.usageLog = Live(app.usageLog, app.duration, now)
         /\ user'.usageLog = Live(user.usageLog, user.duration, now)

C8_DualWindowAdmission == [](C8_Charges) /\ [][C8_Step]_vars

\* A caller is suspended because exactly one of the windows is saturated.
C8_Witness ==
  \E c \in Callers :
    /\ pc[c] = "suspended"
    /\ Head(queue) = c
    /\ HasSpare(app, now) # HasSpare(user, now)

\* The queue holds exactly the suspended callers, each once.
C9_QueueHoldsSuspended ==
  /\ \A c \in Callers : pc[c] = "suspended" <=> (\E i \in DOMAIN queue : queue[i] = c)
  /\ \A i \in DOMAIN queue, j \in DOMAIN queue : queue[i] = queue[j] => i = j

\* C9. FIFO fairness: a caller leaves the queue only from its head, a caller
\* is enqueued only at the back, and a newly arriving caller is admitted only
\* when nobody waits; so a caller enqueued before another is admitted no
\* later than it, and newer arrivals never overtake a waiter.
C9_Step ==
  \A c \in Callers :
    /\ (pc[c] = "suspended" /\ pc'[c] # "suspended") =>
         (c = Head(queue) /\ queue' = Tail(queue) /\ pc'[c] = "admitted")
    /\ (pc[c] # "suspended" /\ pc'[c] = "suspended") => queue' = Append(queue, c)
    /\ (pc[c] \notin {"suspended", "admitted"} /\ pc'[c] = "admitted") =>
         (queue = <<>> /\ queue' = <<>>)

C9_FifoFairness == [](C9_QueueHoldsSuspended) /\ [][C9_Step]_vars

\* Two callers wait and a slot has freed: the limiter is about to serve one.
C9_Witness ==
  /\ Len(queue) >= 2
  /\ HasSpare(app, now)
  /\ HasSpare(user, now)

\* ------------------------------------------------- the concrete scenario
\* capacity = 5, duration = 10 s, the clock starts at t = 0.
ScenarioCapacity == 5
ScenarioDuration == 10

InitScenario ==
  /\ InitCallers
  /\ InitServer
  /\ app = Window(ScenarioCapacity, ScenarioDuration)
  /\ user = Window(ScenarioCapacity, ScenarioDuration)

\* Five calls have been admitted at t = 0 and a further call waits.
ScenarioSet ==
  /\ now = 0
  /\ Len(app.usageLog) = ScenarioCapacity
  /\ queue # <<>>

\* The scenario's clock leaves t = 0 only once its six calls have been made.
TickScenario == (now = 0 => ScenarioSet) /\ Tick

\* The methods the scenario's callers call: one through handleRequest, one not.
ScenarioMethods == {"getBoardById", "getCardChecklists"}

NextScenario ==
  \/ \E c \in Callers, m \in ScenarioMethods : Call(c, m)
  \/ WakeHead
  \/ \E c \in Callers : Send(c)
  \/ \E c \in Callers, resp \in Responses : Respond(c, resp)
  \/ \E c \in Callers : Retry(c)
  \/ \E c \in Callers : Finish(c)
  \/ TickScenario

\* Time passes, and the limiter re-evaluates the head of the queue when a slot frees.
SpecScenario ==
  InitScenario /\ [][NextScenario]_vars /\ WF_vars(TickScenario) /\ WF_vars(WakeHead)

\* C10. The concrete scenario: at t = 0 a call is admitted at once while fewer
\* than five have been admitted and is suspended once five have; nothing is
\* admitted at any instant after 0 and before 10 s; and the call suspended at
\* t = 0 behind the five is admitted in the end, at or after 10 s.
C10_NotBefore ==
  now < ScenarioDuration =>
    /\ Len(admissions) <= ScenarioCapacity
    /\ \A i \in DOMAIN admissions : admissions[i] = 0
    /\ now > 0 => queue # <<>>

C10_AtZero ==
  \A c \in Callers :
    (now = 0 /\ pc[c] = "idle" /\ pc'[c] # "idle") =>
      IF Len(admissions) < ScenarioCapacity
      THEN pc'[c] = "admitted" /\ admissions' = Append(admissions, 0)
      ELSE pc'[c] = "suspended" /\ admissions' = admissions

C10_Eventually ==
  \A c \in Callers :
    (ScenarioSet /\ Head(queue) = c) ~> (pc[c] = "admitted" /\ now >= ScenarioDuration)

C10_BlockedUntilSlotFrees ==
  [](C10_NotBefore) /\ [][C10_AtZero]_vars /\ C10_Eventually

\* The sixth call is admitted at t = 10 s, the first admission after t = 0.
C10_Witness ==
  /\ now = ScenarioDuration
  /\ admissions = <<ScenarioDuration>>
  /\ \E c \in Callers : pc[c] = "admitted"

\* The call of caller c has ended with an outcome that says it was cancelled.
EndedCancelled(c) == pc[c] = "done" /\ result[c].kind = "Cancelled"

\* C11. Cancellable retry wait: a call cancelled during its retry delay, or
\* while suspended in acquire(), stays where it is until it ends with a
\* Cancelled outcome; its operation is not invoked again and it is not admitted.
C11_CancellableRetryWait ==
  \A c \in Callers :
    /\ cancelled[c] = "backoff" => (pc[c] = "waiting" \/ EndedCancelled(c))
    /\ cancelled[c] = "acquire" => (pc[c] = "suspended" \/ EndedCancelled(c))

\* C12. Cancellation non-consumption: a caller cancelled while suspended in
\* acquire() records no usage in either window afterwards.
C12_CancelledConsumesNothing ==
  \A c \in Callers :
    cancelled[c] = "acquire" => (~acquired[c] /\ charged[c] = NoCharge)

\* An axios error that carries no HTTP response: a network or transport fault.
TransientFailure(resp) == resp.kind = "network"

\* C13. Transient failures are recovered locally: a call through handleRequest
\* whose invocation failed with a network fault, with fewer than maxAttempts
\* invocations made, has not ended: it goes on to retry.
C13_TransientRetried ==
  \A c \in Callers :
    (Wrapped(c) /\ TransientFailure(lastResp[c]) /\ invocations[c] < maxAttempts)
      => InProgress(c)

UpstreamFailure(resp) == resp.kind = "response" /\ resp.status \in 500..599

\* C14. Upstream 5xx failures are not retried: when an invocation made through
\* handleRequest is answered with a 5xx, the call has ended with an error
\* carrying that status and body and the operation is not invoked again;
\* answered so on its first invocation, it was invoked exactly once.
C14_Surfaced ==
  \A c \in Callers :
    (Wrapped(c) /\ UpstreamFailure(lastResp[c])) =>
      /\ pc[c] = "done"
      /\ result[c].kind = "McpError"
      /\ result[c].status = lastResp[c].status
      /\ result[c].data = lastResp[c].data
      /\ invocations[c] = throttled[c] + 1

C14_NotInvokedAgain ==
  \A c \in Callers :
    (Wrapped(c) /\ UpstreamFailure(lastResp[c])) =>
      (pc'[c] = "idle" \/ invocations'[c] = invocations[c])

C14_UpstreamFailureNotRetried == [](C14_Surfaced) /\ [][C14_NotInvokedAgain]_vars

C14_Witness ==
  \E c \in Callers :
    /\ Wrapped(c)
    /\ UpstreamFailure(lastResp[c])
    /\ invocations[c] = 1
    /\ throttled[c] = 0
    /\ pc[c] = "done"
    /\ result[c].status = 500

\* The call of caller c has ended with a failure.
EndedFailed(c) == pc[c] = "done" /\ result[c].kind \notin {"none", "Success"}

\* The error that the last invocation of caller c's operation threw by itself.
Raised(c) == InvalidRequestError(ValidationMessage(method[c]))

\* C15. No error is silently discarded: a call through handleRequest that ended
\* with a failure hands the caller the detail of the last observed error: the
\* status and body of the failed upstream call, or the code and message of the
\* error the operation threw; a call that ended after maxAttempts throttled
\* invocations also carries that attempt count.
C15_NoErrorDiscarded ==
  \A c \in Callers :
    (Wrapped(c) /\ EndedFailed(c)) =>
      /\ IsAxiosError(lastResp[c]) =>
           (result[c].status = lastResp[c].status /\ result[c].data = lastResp[c].data)
      /\ lastResp[c] = Thrown =>
           (result[c].code = Raised(c).code /\ result[c].msg = Raised(c).msg)
      /\ throttled[c] = maxAttempts => result[c].msg = "attempts exhausted"

\* C17 as stated. One admission per attempt: every finished invocation of an
\* operation made through handleRequest has sent exactly one upstream request
\* and was granted exactly one admission.
C17_ExactlyOneCall ==
  \A c \in Callers :
    (Wrapped(c) /\ pc[c] \in {"waiting", "done"}) =>
      (attemptSends[c] = 1 /\ attemptAdmits[c] = 1)

\* C17, amended. Every invocation made through handleRequest sends at most
\* one upstream request: exactly one when it ended with that request's answer,
\* none when the operation threw before its request.  A request that is sent
\* consumes the one admission granted to its own invocation, and no
\* admission is left over for a later invocation.
C17_OneAdmissionPerAttempt ==
  \A c \in Callers :
    Wrapped(c) =>
      /\ attemptSends[c] <= 1
      /\ attemptAdmits[c] <= 1
      /\ attemptSends[c] = 1 => attemptAdmits[c] = 1
      /\ acquired[c] => (attemptSends[c] = 0 /\ attemptAdmits[c] = 1)
      /\ pc[c] \in {"inflight", "waiting", "done"} => ~acquired[c]
      /\ pc[c] \in {"waiting", "done"} =>
           IF lastResp[c] = Thrown
           THEN attemptSends[c] = 0 /\ attemptAdmits[c] = 0
           ELSE attemptSends[c] = 1

\* One call ended on the answer to its second invocation's own request, and
\* another ended on a validation error without any request.
C17_Witness ==
  \E c, d \in Callers :
    /\ Wrapped(c) /\ invocations[c] = 2 /\ pc[c] = "done"
    /\ attemptSends[c] = 1 /\ attemptAdmits[c] = 1
    /\ Wrapped(d) /\ pc[d] = "done" /\ lastResp[d] = Thrown
    /\ attemptSends[d] = 0

\* C18. Nothing but {boardId, workspaceId} is persisted: the configuration file,
\* once written, holds no property other than boardId and workspaceId, whose
\* values are ids and never the credentials; and every start of the process
\* begins with empty windows and an empty queue, the credentials coming
\* from the environment.
C18_FileContent ==
  configFile # Absent =>
    /\ DOMAIN configFile \subseteq {"boardId", "workspaceId"}
    /\ \A k \in DOMAIN configFile :
         configFile[k] \in (Ids \cup EnvBoardIds) \ {Undefined}

C18_RestartStep ==
  boot'.epoch # boot.epoch =>
    /\ app'.usageLog = <<>>
    /\ user'.usageLog = <<>>
    /\ queue' = <<>>
    /\ \A c \in Callers : ~acquired'[c] /\ charged'[c] = NoCharge
    /\ activeConfig'.apiKey = Constructed(Undefined).apiKey
    /\ activeConfig'.token = Constructed(Undefined).token
    /\ configFile' = configFile

C18_NothingPersisted == [](C18_FileContent) /\ [][C18_RestartStep]_vars

\* The process has been started again after a save, and that start threw
\* usage records away: the windows are empty, the saved board id is active.
C18_Witness ==
  /\ boot.dropped > 0
  /\ configFile # Absent
  /\ "boardId" \in DOMAIN configFile
  /\ activeConfig.boardId = configFile["boardId"]
  /\ app.usageLog = <<>>
  /\ user.usageLog = <<>>
  /\ \A c \in Callers : pc[c] = "idle"

\* C19. Validation errors keep their identity: a call whose operation threw
\* McpError(InvalidRequest, message) on validating its argument ends with
\* that error, and its invocation sent no upstream request.
C19_ValidationErrorKept ==
  \A c \in Callers :
    (lastResp[c] = Thrown /\ pc[c] = "done") =>
      (result[c] = Raised(c) /\ attemptSends[c] = 0)

\* Caller c is suspended: in waitForAvailableToken() or in the retry delay.
Suspended(c) == pc[c] \in {"suspended", "waiting"}

\* C16. Non-blocking suspension: while a caller is suspended in acquire() or in
\* the retry delay, every other caller can take the next step of its own call:
\* start a call (and be admitted at once when nobody queues and both windows
\* have a spare slot), send its admitted request, receive a successful
\* answer, retry when its own delay is over, and hand over its result.
C16_NonBlockingSuspension ==
  \A c \in Callers : \A d \in Callers \ {c} :
    Suspended(c) =>
      /\ pc[d] = "idle" => \A m \in Methods : ENABLED Call(d, m)
      /\ (pc[d] = "idle" /\ queue = <<>> /\ HasSpare(app, now) /\ HasSpare(user, now))
           => ENABLED (Call(d, "getBoardById") /\ pc'[d] = "admitted")
      /\ pc[d] = "admitted" => ENABLED Send(d)
      /\ pc[d] = "inflight" =>
           \A resp \in Responses :
             ENABLED (Respond(d, resp) /\ (Resolves(resp) => pc'[d] = "done"))
      /\ (pc[d] = "waiting" /\ now >= wakeAt[d] /\ invocations[d] < MaxCalls)
           => ENABLED Retry(d)
      /\ pc[d] = "done" => ENABLED Finish(d)

\* One caller has been throttled twice and sits in its retry delay while the
\* other caller's call has completed successfully.
C16_Witness ==
  \E c \in Callers : \E d \in Callers \ {c} :
    /\ pc[c] = "waiting" /\ throttled[c] >= 2
    /\ pc[d] = "done" /\ result[d].kind = "Success"

\* C20. Failed set-active leaves state unchanged: a step in which
\* setActiveBoard or setActiveWorkspace rejects leaves activeConfig.boardId
\* and activeConfig.workspaceId as they were.
C20_RejectStep ==
  \A c \in Callers :
    (/\ method[c] \in ConfigMethods
     /\ pc[c] = "inflight"
     /\ pc'[c] = "done"
     /\ result'[c].kind # "Success") =>
      /\ activeConfig'.boardId = activeConfig.boardId
      /\ activeConfig'.workspaceId = activeConfig.workspaceId

C20_FailedSetActiveUnchanged == [][C20_RejectStep]_vars

\* No call of a set-active tool is under way.
Quiescent == \A c \in Callers : pc[c] \in {"idle", "done"}

\* C21. Persisted config converges to the in-memory config: when every call
\* of setActiveBoard / setActiveWorkspace has completed and the file has been
\* written, the file holds the boardId and workspaceId of activeConfig.
C21_PersistedConverges ==
  (Quiescent /\ configFile # Absent) =>
    configFile = Stringify(ConfigToSave(activeConfig))

\* A step of the running client, not a start of the process.
SameProcess == boot'.epoch = boot.epoch

\* The step in which setActiveBoard('') assigns its argument.
AssignsEmptyBoardId ==
  \E c \in Callers :
    /\ method[c] = "setActiveBoard" /\ arg[c] = ""
    /\ pc[c] = "inflight" /\ pc'[c] = "done"

\* C22 as stated. Active board is never lost: no step of the running client
\* takes activeBoardId from a non-empty id to undefined or ''.
C22_BoardKeptStep ==
  (SameProcess /\ Truthy(activeConfig.boardId)) => Truthy(activeConfig'.boardId)

C22_ActiveBoardNeverLost == [][C22_BoardKeptStep]_vars

\* C22, amended. No step of the running client other than the assignment of
\* setActiveBoard('') takes activeBoardId from a non-empty id to undefined
\* or '', and a client constructed with a board id has a non-empty
\* activeBoardId after its loadConfig, whatever the file holds.
C22_BoardKeptUnlessEmptyStep ==
  /\ (SameProcess /\ Truthy(activeConfig.boardId) /\ ~AssignsEmptyBoardId)
       => Truthy(activeConfig'.boardId)
  /\ (~SameProcess /\ Truthy(activeConfig'.defaultBoardId))
       => Truthy(activeConfig'.boardId)

C22_BoardKeptUnlessEmptyId == [][C22_BoardKeptUnlessEmptyStep]_vars

\* The client has an active board although the file holds an empty boardId.
C22_Witness ==
  /\ Truthy(activeConfig.boardId)
  /\ Parses(configFile)
  /\ Saved(configFile, "boardId") = ""

\* Caller c starts a call of a board method without a boardId argument while
\* the client has neither an active nor a default board.
CallsWithoutBoard(c) ==
  /\ pc[c] = "idle"
  /\ pc'[c] # "idle"
  /\ method'[c] \in BoardMethods
  /\ ~Truthy(arg'[c])
  /\ ~Truthy(activeConfig.boardId)
  /\ ~Truthy(activeConfig.defaultBoardId)

\* C23. Missing board is rejected before any admission: such a call ends at
\* once with an InvalidParams error; it acquires no rate-limit token, leaves
\* both windows and the queue as they were, and sends no upstream request.
C23_RejectedStep ==
  \A c \in Callers :
    CallsWithoutBoard(c) =>
      /\ pc'[c] = "done"
      /\ result'[c].kind = "McpError"
      /\ result'[c].code = "InvalidParams"
      /\ attemptAdmits'[c] = 0
      /\ attemptSends'[c] = 0
      /\ ~acquired'[c]
      /\ UNCHANGED <<app, user, queue, admissions>>

C23_MissingBoardRejected == [][C23_RejectedStep]_vars

\* A board method was rejected for want of a board, with both windows unused.
C23_Witness ==
  \E c \in Callers :
    /\ pc[c] = "done"
    /\ method[c] \in BoardMethods
    /\ result[c] = InvalidParamsError(method[c])
    /\ invocations[c] = 0
    /\ app.usageLog = <<>>
    /\ user.usageLog = <<>>

\* The handler of caller c returns: after its client call has ended, or at
\* once without a client call.
ReturnsAfterCall(c) == pc[c] = "done" /\ pc'[c] = "idle" /\ SameProcess
ReturnsAtOnce(c) == pc[c] = "idle" /\ toolResult'[c] # toolResult[c]

\* C24 as stated. Tool handlers never throw: the handler returns a result
\* for every outcome of the client call; a failure is returned with isError
\* and the text 'Error: <message>', a success without isError.
C24_UniformStep ==
  \A c \in Callers :
    /\ ReturnsAfterCall(c) =>
         /\ toolResult'[c].returned
         /\ IF result[c].kind = "Success"
            THEN ~toolResult'[c].isError
            ELSE /\ toolResult'[c].isError
                 /\ toolResult'[c].text = "Error: " \o result[c].msg
    /\ ReturnsAtOnce(c) =>
         /\ toolResult'[c].returned
         /\ toolResult'[c].isError => toolResult'[c].text = "Error: " \o result[c].msg

C24_HandlersUniform == [][C24_UniformStep]_vars

\* C24, amended. The handler returns a result for every outcome; a call
\* that threw is returned with isError and 'Error: <message>'; a call that
\* resolved is returned without isError, except that get_checklist_by_name
\* returns isError with a not-found text when the client found no checklist;
\* and get_active_board_info returns isError 'No active board set', without
\* any client call, when no board is active.
C24_Step ==
  \A c \in Callers :
    /\ ReturnsAfterCall(c) =>
         /\ toolResult'[c].returned
         /\ IF result[c].kind = "Success"
            THEN IF method[c] = "getChecklistByName" /\ ~HasChecklist(result[c].data)
                 THEN /\ toolResult'[c].isError
                      /\ toolResult'[c].text = "Checklist not found"
                 ELSE /\ ~toolResult'[c].isError
                      /\ toolResult'[c].text = result[c].data
            ELSE /\ toolResult'[c].isError
                 /\ toolResult'[c].text = "Error: " \o result[c].msg
    /\ ReturnsAtOnce(c) =>
         /\ ~Truthy(activeConfig.boardId)
         /\ toolResult'[c] = NoActiveBoard
         /\ UNCHANGED <<pc, app, user, queue>>

C24_HandlersNeverThrow == [][C24_Step]_vars

\* A handler has returned the error of a failed call as 'Error: <message>'.
C24_Witness ==
  \E c \in Callers :
    /\ toolResult[c].returned
    /\ toolResult[c].isError
    /\ toolResult[c].text = "Error: " \o TrelloApiError(NoResponse).msg

\* ---------------------------------------------------- start of the process
\* process.env: each credential is not set, set to '', or set.
EnvKeys == {Undefined, "", "key"}
EnvTokens == {Undefined, "", "tok"}

\* What the configuration file can hold when the process starts: nothing,
\* something that cannot be read, something that is not JSON, or an object
\* with any of boardId, workspaceId and apiKey, each possibly ''.
SavedObjects ==
  {Stringify([boardId |-> b, workspaceId |-> w, apiKey |-> k]) :
     b \in {Undefined, "", "i1"}, w \in {Undefined, "", "w1"},
     k \in {Undefined, "k2"}}

FileContents == {Absent, Unreadable, NotJson} \cup SavedObjects

\* No TrelloClient exists yet.
NotConstructed == [constructed |-> FALSE]

\* if (!apiKey || !token) throw
HasCredentials(e) == Truthy(e.apiKey) /\ Truthy(e.token)

\* loadConfig's catch block rethrows the errors that carry a code other than
\* ENOENT: the file system's errors.  JSON.parse's SyntaxError carries no
\* code and is dropped like ENOENT.
LoadRejects(file) == file = Unreadable

\* A run() that goes on only when loadConfig resolved.
RunProceedsOnlyResolved(outcome) == outcome = "resolved"

\* run(): await loadConfig().catch(() => {}) goes on after either outcome.
RunProceeds(outcome) == outcome \in {"resolved", "rejected"}

InitStartup ==
  /\ InitCallers
  /\ app = Window(1, 3)
  /\ user = Window(1, 3)
  /\ phase = "off"
  /\ loadOutcome = "none"
  /\ activeConfig = NotConstructed
  /\ configFile \in FileContents
  /\ \E k \in EnvKeys, t \in EnvTokens, b \in EnvBoardIds :
       env = [apiKey |-> k, token |-> t, boardId |-> b]

startupFrame ==
  <<now, app, user, queue, pc, method, invocations, throttled, lastResp,
    result, wakeAt, throttledAt, acquired, charged, sendAdmitted, admissions,
    cancelled, attemptAdmits, attemptSends, configFile, arg, boot, pending,
    toolResult, env>>

\* new TrelloServer(): throws when a credential is missing, else constructs
\* the client from the environment.
Construct ==
  /\ phase = "off"
  /\ IF HasCredentials(env)
     THEN /\ phase' = "constructed"
          /\ activeConfig' = Constructed(env.boardId)
     ELSE /\ phase' = "failed"
          /\ UNCHANGED activeConfig
  /\ UNCHANGED loadOutcome
  /\ UNCHANGED startupFrame

\* run(): this.trelloClient.loadConfig() settles.
Load ==
  /\ phase = "constructed"
  /\ phase' = "loaded"
  /\ activeConfig' = LoadConfig(activeConfig, configFile)
  /\ loadOutcome' = IF LoadRejects(configFile) THEN "rejected" ELSE "resolved"
  /\ UNCHANGED startupFrame

\* run(): await this.server.connect(transport)
Connect ==
  /\ phase = "loaded"
  /\ RunProceeds(loadOutcome)
  /\ phase' = "connected"
  /\ UNCHANGED <<activeConfig, loadOutcome>>
  /\ UNCHANGED startupFrame

NextStartup ==
  \/ Construct
  \/ Load
  \/ Connect

SpecStartup == InitStartup /\ [][NextStartup]_vars

\* loadConfig has just settled.
LoadSettled == phase = "constructed" /\ phase' = "loaded"

\* C25. loadConfig changes only the active boardId and workspaceId: for every
\* content of the file, apiKey, token and defaultBoardId are as before, and
\* boardId / workspaceId are overwritten only by a saved value that is
\* present and non-empty.
C25_LoadStep ==
  LoadSettled =>
    /\ activeConfig'.apiKey = activeConfig.apiKey
    /\ activeConfig'.token = activeConfig.token
    /\ activeConfig'.defaultBoardId = activeConfig.defaultBoardId
    /\ \A k \in {"boardId", "workspaceId"} :
         activeConfig'[k] =
           IF k \in DOMAIN configFile /\ configFile[k] \in {"i1", "w1"}
           THEN configFile[k] ELSE activeConfig[k]

C25_LoadChangesOnlyActiveIds == [][C25_LoadStep]_vars

\* loadConfig has read a file that holds an apiKey and an empty boardId, and
\* has kept the client's own apiKey and board.
C25_Witness ==
  /\ phase = "loaded"
  /\ Saved(configFile, "apiKey") = "k2"
  /\ Saved(configFile, "boardId") = ""
  /\ Saved(configFile, "workspaceId") = "w1"
  /\ activeConfig.apiKey = "key"
  /\ activeConfig.boardId = "b0"
  /\ activeConfig.workspaceId = "w1"

\* C26. loadConfig tolerates only a missing file: it resolves and leaves the
\* active configuration as constructed when the file does not exist, and it
\* rejects when the file cannot be read or does not hold valid JSON.
C26_ToleratesOnlyMissingFile ==
  phase = "loaded" =>
    /\ configFile = Absent =>
         loadOutcome = "resolved" /\ activeConfig = Constructed(env.boardId)
    /\ configFile \in {Unreadable, NotJson} => loadOutcome = "rejected"

\* C27. Startup ordering: the server is connected only after loadConfig has
\* settled; once loadConfig has settled, resolved or rejected, the connect
\* step can be taken; and no server is constructed, loaded or connected when
\* TRELLO_API_KEY or TRELLO_TOKEN is missing.
C27_StartupOrdering ==
  /\ phase = "connected" => loadOutcome \in {"resolved", "rejected"}
  /\ phase = "loaded" => loadOutcome # "none" /\ ENABLED Connect
  /\ phase \in {"off", "constructed", "failed"} => loadOutcome = "none"
  /\ phase \in {"constructed", "loaded", "connected"} => HasCredentials(env)
  /\ ~HasCredentials(env) => activeConfig = NotConstructed

\* The server is connected although loadConfig rejected.
C27_Witness == phase = "connected" /\ loadOutcome = "rejected"

====
